---- MODULE Spec2Model ----
(***************************************************************************)
(* Distributed Barnes-Hut N-body driver (n-body/src/main.rs).              *)
(*                                                                         *)
(* n_nodes MPI processes run main(): rank 0 generates the bodies and       *)
(* broadcasts them, then every process runs n_steps times                  *)
(*   bounds -> barnes_hut (sharded build, fold, tree exchange, merge,      *)
(*   force + integration) -> all-gather of the updated bodies.             *)
(*                                                                         *)
(* Floats are modelled by integers.  The quad tree of tree.rs is modelled  *)
(* by its domain and the bag of the leaves it holds.  A blocking           *)
(* collective is a mailbox per rank: a process deposits its contribution   *)
(* when it calls the collective and returns from it once every rank has    *)
(* deposited for the same step.                                            *)
(***************************************************************************)
EXTENDS Bags, FiniteSets, Integers, Sequences, TLC

VARIABLES
    n_nodes,            \* world.size()
    args,               \* the parsed command line (Args), the same on every rank
    pc,                 \* pc[p]: where process p stands in main()
    alive,              \* alive[p]: FALSE once the process has stopped for good
    step,               \* step[p]: the loop counter _step
    all_bodies,         \* all_bodies[p]: the replicated body array
    local_bodies,       \* local_bodies[p]: the slice the process integrates
    root,               \* root[p]: the tree of the current step
    shards,             \* shards[p]: the chunks par_chunks cut in the last build
    thread_trees,       \* thread_trees[p]: the partial trees of the last build
    serialized_lengths, \* serialized_lengths[p]: result of the length all-gather
    durations,          \* durations[p]: lengths of the four global duration logs
    calls,              \* calls[p]: the collective calls issued so far, in order
    bcast_box,          \* the root's broadcast message, "none" before it is sent
    len_box,            \* len_box[q]: q's contribution to the length all-gather
    tree_box,           \* tree_box[q]: q's contribution to the tree all-gather
    body_box            \* body_box[q]: q's contribution to the body all-gather

vars == <<n_nodes, args, pc, alive, step, all_bodies, local_bodies, root, shards,
          thread_trees, serialized_lengths, durations, calls, bcast_box, len_box,
          tree_box, body_box>>

----------------------------------------------------------------------------
(* Bounds of the model.                                                    *)

MaxProcs == 2
MaxBodies == 3
MaxThreads == 2
MaxSteps == 2
MaxSeed == 1

ROOT_RANK == 0

Procs == 0 .. (n_nodes - 1)

----------------------------------------------------------------------------
(* Small helpers.                                                          *)

Max(a, b) == IF a >= b THEN a ELSE b

Sgn(x) == IF x > 0 THEN 1 ELSE IF x < 0 THEN -1 ELSE 0

SetMin(S) == CHOOSE x \in S : \A y \in S : x <= y

SetMax(S) == CHOOSE x \in S : \A y \in S : x >= y

RECURSIVE SumSeq(_)
SumSeq(s) == IF s = <<>> THEN 0 ELSE Head(s) + SumSeq(Tail(s))

RECURSIVE Concat(_)
Concat(ss) == IF ss = <<>> THEN <<>> ELSE Head(ss) \o Concat(Tail(ss))

\* s[lo .. hi-1] of a Rust slice, 0-based and half-open
Slice(s, lo, hi) == SubSeq(s, lo + 1, hi)

----------------------------------------------------------------------------
(* Bodies and their generation.                                            *)

\* Body::default()
DefaultBody == [id |-> 0, mass |-> 0, position |-> <<0, 0>>, velocity |-> <<0, 0>>]

\* The k-th draw of thread_rng() for a given seed, as the numerator of a
\* fraction of 8: the draw is Sample/8, a value of [0, 1).
Sample(seed, k) == (seed + 3 * k) % 8

\* generate_random_bounded: n draws x, each mapped to x * (max - min) + min.
\* first is the number of draws the generator has already given.
generate_random_bounded(n, min, max, seed, first) ==
    [i \in 1 .. n |-> (Sample(seed, first + i - 1) * (max - min)) \div 8 + min]

\* Variant: the quotient rounded down.
bodies_per_proc_floor(n_bodies, nodes) == n_bodies \div nodes

\* (n_bodies / n_nodes).ceil()
bodies_per_proc(n_bodies, nodes) == (n_bodies + nodes - 1) \div nodes

filled_n(n_bodies, nodes) == bodies_per_proc(n_bodies, nodes) * nodes

extra_n(n_bodies, nodes) == filled_n(n_bodies, nodes) - n_bodies

\* repeat(0f64).take(k)
Zeros(k) == [i \in 1 .. k |-> 0]

\* The input the root creates: n_bodies random bodies, then extra_n bodies
\* of mass 0 at the origin.
GenerateBodies(a, nodes) ==
    LET n == a.n_bodies
        extra == extra_n(n, nodes)
        masses == generate_random_bounded(n, 0, a.mass_max, a.seed, 0) \o Zeros(extra)
        all_positions ==
            generate_random_bounded(n * 2, -a.pos_max, a.pos_max, a.seed, n)
                \o Zeros(extra * 2)
        init_velocities ==
            generate_random_bounded(n * 2, -a.velocity_max, a.velocity_max, a.seed, 3 * n)
                \o Zeros(extra * 2)
    IN  [j \in 1 .. filled_n(n, nodes) |->
            [id |-> j - 1,
             mass |-> masses[j],
             position |-> <<all_positions[2 * j - 1], all_positions[2 * j]>>,
             velocity |-> <<init_velocities[2 * j - 1], init_velocities[2 * j]>>]] \o <<>>

\* all_bodies[rank * bodies_per_proc .. (rank + 1) * bodies_per_proc]
LocalSlice(bodies, rank, per_proc) ==
    Slice(bodies, rank * per_proc, (rank + 1) * per_proc)

----------------------------------------------------------------------------
(* Bounds computation and the tree.                                        *)

\* Variant: an empty array gives the box of the origin instead of a panic
\* (unwrap_or(0.0) in place of unwrap()).
get_bounds_or_origin(positions) ==
    IF positions = <<>>
    THEN [ok |-> TRUE, bounds |-> <<<<0, 0>>, <<0, 0>>>>]
    ELSE LET xs == {positions[i][1] : i \in DOMAIN positions}
             ys == {positions[i][2] : i \in DOMAIN positions}
         IN  [ok |-> TRUE,
              bounds |-> <<<<CHOOSE x \in xs : \A y \in xs : x <= y,
                             CHOOSE x \in xs : \A y \in xs : x >= y>>,
                           <<CHOOSE x \in ys : \A y \in ys : x <= y,
                             CHOOSE x \in ys : \A y \in ys : x >= y>>>>]

\* get_bounds: [[x_min, x_max], [y_min, y_max]]; the unwrap() of an empty
\* iterator's min_by panics (ok = FALSE).
get_bounds(positions) ==
    IF positions = <<>>
    THEN [ok |-> FALSE]
    ELSE LET xs == {positions[i][1] : i \in DOMAIN positions}
             ys == {positions[i][2] : i \in DOMAIN positions}
         IN  [ok |-> TRUE,
              bounds |-> <<<<SetMin(xs), SetMax(xs)>>, <<SetMin(ys), SetMax(ys)>>>>]

Positions(bodies) == [i \in DOMAIN bodies |-> bodies[i].position] \o <<>>

\* Variant: the domain takes the smaller of the two extents.
NewTreeSmallerExtent(bounds) ==
    [center2 |-> <<bounds[1][2] + bounds[1][1], bounds[2][2] + bounds[2][1]>>,
     size |-> IF bounds[1][2] - bounds[1][1] <= bounds[2][2] - bounds[2][1]
              THEN bounds[1][2] - bounds[1][1]
              ELSE bounds[2][2] - bounds[2][1],
     bodies |-> EmptyBag]

\* The empty root of a step: TreeNode { center, size, ..TreeNode::default() }.
\* center2 is twice the center (the midpoint of integers need not be one).
NewTree(bounds) ==
    [center2 |-> <<bounds[1][2] + bounds[1][1], bounds[2][2] + bounds[2][1]>>,
     size |-> Max(bounds[1][2] - bounds[1][1], bounds[2][2] - bounds[2][1]),
     bodies |-> EmptyBag]

\* What a leaf keeps of a body.
Leaf(b) == [id |-> b.id, mass |-> b.mass, position |-> b.position]

\* TreeNode::insert: the tree holds one more leaf.
insert(tree, b) == [tree EXCEPT !.bodies = @ (+) SetToBag({Leaf(b)})]

\* TreeNode::merge: the union of the bodies of both trees.
merge(tree, other) == [tree EXCEPT !.bodies = @ (+) other.bodies]

RECURSIVE MergeAll(_, _)
MergeAll(tree, trees) ==
    IF trees = <<>> THEN tree ELSE MergeAll(merge(tree, Head(trees)), Tail(trees))

RECURSIVE SumForce(_, _, _)
SumForce(leaves, bag, b) ==
    IF leaves = {}
    THEN <<0, 0>>
    ELSE LET l == CHOOSE x \in leaves : TRUE
             rest == SumForce(leaves \ {l}, bag, b)
             k == IF l.id = b.id THEN 0 ELSE CopiesIn(l, bag) * b.mass * l.mass
         IN  <<rest[1] + k * Sgn(l.position[1] - b.position[1]),
               rest[2] + k * Sgn(l.position[2] - b.position[2])>>

\* TreeNode::calculate_force with theta = 0: the direct sum over every leaf
\* but the body's own.  Each leaf pulls with m1 * m2 along the sign of the
\* distance on each axis; a leaf at distance 0 on an axis adds nothing there.
calculate_force(tree, b, theta) == SumForce(BagToSet(tree.bodies), tree.bodies, b)

----------------------------------------------------------------------------
(* The build phase of barnes_hut.                                          *)

\* local_bodies.len() / n_threads + 1
bodies_per_thread(len, threads) == len \div threads + 1

\* slice::par_chunks: chunks of chunk_size bodies, the last one of what is left
RECURSIVE par_chunks(_, _)
par_chunks(s, chunk_size) ==
    IF s = <<>>
    THEN <<>>
    ELSE IF Len(s) <= chunk_size
         THEN <<s>>
         ELSE <<SubSeq(s, 1, chunk_size)>>
                  \o par_chunks(SubSeq(s, chunk_size + 1, Len(s)), chunk_size)

\* Variant: every body is inserted, padding included.
InsertAnyMass(tree, b) == insert(tree, b)

\* if b.mass > 0f64 { thread_root.insert(b) }
InsertIfMass(tree, b) == IF b.mass > 0 THEN insert(tree, b) ELSE tree

\* The closure run on one chunk: a clone of the empty root, every body of
\* the chunk with a positive mass inserted.
RECURSIVE ThreadTree(_, _)
ThreadTree(thread_root, bs) ==
    IF bs = <<>>
    THEN thread_root
    ELSE ThreadTree(InsertIfMass(thread_root, Head(bs)), Tail(bs))

\* The orders in which n parallel tasks can complete.
Orders(n) == {o \in [1 .. n -> 1 .. n] : \A i, j \in 1 .. n : i # j => o[i] # o[j]}

\* The chunk tasks completing in the given order, all on one tree that is
\* handed from task to task; each leaves the tree as it stands in its slot.
RECURSIVE SharedRootTasks(_, _, _, _)
SharedRootTasks(trees, shared, chunks, order) ==
    IF order = <<>>
    THEN trees
    ELSE LET t == Head(order)
             grown == ThreadTree(shared, chunks[t])
         IN  SharedRootTasks([trees EXCEPT ![t] = grown], grown, chunks, Tail(order))

\* Variant: the tasks insert into the one root instead of a clone of it.
BuildOnSharedRoot(scaffold, chunks, order) ==
    SharedRootTasks([t \in DOMAIN chunks |-> scaffold] \o <<>>, scaffold, chunks, order)

\* The chunk tasks completing in the given order: each clones the empty
\* root, fills the clone and leaves it in the slot of its chunk.
RECURSIVE BuildTasks(_, _, _, _)
BuildTasks(trees, scaffold, chunks, order) ==
    IF order = <<>>
    THEN trees
    ELSE BuildTasks([trees EXCEPT ![Head(order)] = ThreadTree(scaffold, chunks[Head(order)])],
                    scaffold, chunks, Tail(order))

\* par_chunks(..).map(..).collect(): the trees in the order of the chunks,
\* whatever the order in which the tasks complete.
BuildThreadTrees(scaffold, chunks, order) ==
    BuildTasks([t \in DOMAIN chunks |-> scaffold] \o <<>>, scaffold, chunks, order)

----------------------------------------------------------------------------
(* The tree exchange of barnes_hut.                                        *)

\* The leaves of a bag in the order of their ids, each as often as it is held.
RECURSIVE LeafSeq(_)
LeafSeq(bag) ==
    IF BagToSet(bag) = {}
    THEN <<>>
    ELSE LET l == CHOOSE x \in BagToSet(bag) : \A y \in BagToSet(bag) : x.id <= y.id
         IN  <<l>> \o LeafSeq(bag (-) SetToBag({l}))

\* bitcode::serialize(&root): one unit for the node's domain, one per leaf.
Encode(tree) ==
    LET leaves == LeafSeq(tree.bodies)
    IN  <<[tag |-> "node", center2 |-> tree.center2, size |-> tree.size]>>
            \o [i \in DOMAIN leaves |-> [tag |-> "leaf", leaf |-> leaves[i]]]

RECURSIVE SeqToBag(_)
SeqToBag(s) ==
    IF s = <<>> THEN EmptyBag ELSE SetToBag({Head(s)}) (+) SeqToBag(Tail(s))

\* Variant: a buffer that does not decode yields an empty default tree
\* (unwrap_or_default in place of unwrap).
DecodeOrDefault(units) ==
    IF \/ units = <<>>
       \/ Head(units).tag # "node"
       \/ \E i \in 2 .. Len(units) : units[i].tag # "leaf"
    THEN [ok |-> TRUE, tree |-> [center2 |-> <<0, 0>>, size |-> 0, bodies |-> EmptyBag]]
    ELSE [ok |-> TRUE,
          tree |-> [center2 |-> Head(units).center2,
                    size |-> Head(units).size,
                    bodies |-> SeqToBag([i \in 1 .. Len(units) - 1 |->
                                            units[i + 1].leaf])]]

\* bitcode::deserialize::<TreeNode>(..).unwrap(): Err (ok = FALSE, the unwrap
\* panics) unless the units are those of one encoded tree.
Decode(units) ==
    IF \/ units = <<>>
       \/ Head(units).tag # "node"
       \/ \E i \in 2 .. Len(units) : units[i].tag # "leaf"
    THEN [ok |-> FALSE]
    ELSE [ok |-> TRUE,
          tree |-> [center2 |-> Head(units).center2,
                    size |-> Head(units).size,
                    bodies |-> SeqToBag([i \in 1 .. Len(units) - 1 |->
                                            units[i + 1].leaf])]]

\* The gathered lengths, in rank order.
GatherLengths(boxes, nodes) == [i \in 1 .. nodes |-> boxes[i - 1].len] \o <<>>

\* .scan(0, |acc, &x| { let tmp = *acc; *acc += x; Some(tmp) })
RECURSIVE Scan(_, _)
Scan(lengths, acc) ==
    IF lengths = <<>>
    THEN <<>>
    ELSE <<acc>> \o Scan(Tail(lengths), acc + Head(lengths))

\* Variant: the scan yields the running sum after each length is added.
OffsetsInclusive(lengths) ==
    [i \in DOMAIN lengths |-> SumSeq(SubSeq(lengths, 1, i))] \o <<>>

\* offsets: the sum of the lengths before each rank
Offsets(lengths) == Scan(lengths, 0)

\* A unit of a receive buffer nothing was written to: vec![0u8; total].
ZeroUnit == [tag |-> "zero"]

\* One rank's part of the gather: count units written at offset.
WriteAt(buf, units, offset, count) ==
    [k \in DOMAIN buf |->
        IF offset < k /\ k <= offset + count /\ k - offset <= Len(units)
        THEN units[k - offset]
        ELSE buf[k]] \o <<>>

\* all_gather_varcount_into: the units of rank i - 1 land at offsets[i] of
\* the buffer, lengths[i] of them.  damaged > 0: the units of that rank
\* arrive zeroed (a transport fault, the Err case of the decode).
RECURSIVE GatherTreesFrom(_, _, _, _, _, _)
GatherTreesFrom(buf, boxes, lengths, offsets, damaged, i) ==
    IF i > Len(lengths)
    THEN buf
    ELSE GatherTreesFrom(
             IF i = damaged
             THEN buf
             ELSE WriteAt(buf, boxes[i - 1].bytes, offsets[i], lengths[i]),
             boxes, lengths, offsets, damaged, i + 1)

GatherTrees(boxes, lengths, offsets, total, damaged) ==
    GatherTreesFrom([k \in 1 .. total |-> ZeroUnit] \o <<>>,
                    boxes, lengths, offsets, damaged, 1)

\* The parallel decode: unit range [offsets[i], offsets[i + 1]) for every
\* rank, up to the total length for the last one.
DecodeAll(all_trees_buf, offsets, total, world_size) ==
    [i \in 1 .. world_size |->
        Decode(Slice(all_trees_buf, offsets[i],
                     IF i = world_size THEN total ELSE offsets[i + 1]))] \o <<>>

\* for (i, tree) in all_trees: if i != world.rank() { root.merge(tree) }
RECURSIVE MergePeersFrom(_, _, _, _)
MergePeersFrom(tree, all_trees, rank, i) ==
    IF i > Len(all_trees)
    THEN tree
    ELSE MergePeersFrom(IF i - 1 # rank THEN merge(tree, all_trees[i]) ELSE tree,
                        all_trees, rank, i + 1)

\* Variant: the caller's own decoded tree is merged as well.
MergeEveryTree(tree, all_trees, rank) == MergeAll(tree, all_trees)

MergePeers(tree, all_trees, rank) == MergePeersFrom(tree, all_trees, rank, 1)

----------------------------------------------------------------------------
(* Force evaluation and integration.                                       *)

calc_velocity(old_velocity, force, mass, timestep) ==
    <<old_velocity[1] + (force[1] \div mass) * timestep,
      old_velocity[2] + (force[2] \div mass) * timestep>>

calc_position(velocity, old_position, timestep) ==
    <<old_position[1] + velocity[1] * timestep,
      old_position[2] + velocity[2] * timestep>>

\* Variant: a body of mass 0 skips the force but still moves.
IntegrateDrifting(b, tree, theta, timestep) ==
    IF b.mass = 0
    THEN [b EXCEPT !.position = calc_position(b.velocity, b.position, timestep)]
    ELSE LET f == calculate_force(tree, b, theta)
             v == calc_velocity(b.velocity, f, b.mass, timestep)
         IN  [b EXCEPT !.velocity = v,
                       !.position = calc_position(v, b.position, timestep)]

\* Variant: explicit Euler, the position advanced with the old velocity.
IntegrateOldVelocity(b, tree, theta, timestep) ==
    IF b.mass = 0
    THEN b
    ELSE LET f == calculate_force(tree, b, theta)
         IN  [b EXCEPT !.velocity = calc_velocity(b.velocity, f, b.mass, timestep),
                       !.position = calc_position(b.velocity, b.position, timestep)]

\* The closure of the par_iter_mut over local_bodies.
Integrate(b, tree, theta, timestep) ==
    IF b.mass = 0
    THEN b
    ELSE LET f == calculate_force(tree, b, theta)
             v == calc_velocity(b.velocity, f, b.mass, timestep)
         IN  [b EXCEPT !.velocity = v,
                       !.position = calc_position(v, b.position, timestep)]

\* The body tasks of par_iter_mut().for_each() completing in the given
\* order: each reads the tree and its own body and writes its own slot.
RECURSIVE ForceTasks(_, _, _, _, _)
ForceTasks(bodies, tree, theta, timestep, order) ==
    IF order = <<>>
    THEN bodies
    ELSE ForceTasks([bodies EXCEPT ![Head(order)] = Integrate(@, tree, theta, timestep)],
                    tree, theta, timestep, Tail(order))

\* Variant: the slices are put together from the last rank to the first.
GatherBodiesReversed(boxes, nodes) ==
    Concat([i \in 1 .. nodes |-> boxes[nodes - i].bodies] \o <<>>)

\* all_gather_into(&local_bodies, &mut all_bodies): the slices in rank order
GatherBodies(boxes, nodes) == Concat([i \in 1 .. nodes |-> boxes[i - 1].bodies] \o <<>>)

\* Variant: a collective returns as soon as any rank has deposited.
AnyArrived(boxes, k) == \E q \in Procs : boxes[q].step = k

\* Variant: a collective waits only for the ranks that have not stopped.
AllAliveArrived(boxes, k) == \A q \in Procs : alive[q] => boxes[q].step = k

\* A collective returns once every rank has deposited for the caller's step.
AllArrived(boxes, k) == \A q \in Procs : boxes[q].step = k

\* Variant: the merge duration is logged inside the exchange block only.
PushMergeInExchange(log, nodes) == IF nodes > 1 THEN log + 1 ELSE log

\* MERGE_DURATIONS.push(..) after the exchange block, whatever the world size
PushMerge(log, nodes) == log + 1

\* Variant: the loop runs once more than n_steps.
LoopContinuesInclusive(k, n_steps) == k <= n_steps

\* for _step in 0..args.n_steps
LoopContinues(k, n_steps) == k < n_steps

----------------------------------------------------------------------------
(* The processes.                                                          *)

\* args.threads_per_node.unwrap_or(1)
n_threads == args.threads_per_node

\* serialized.len() as i32: the value itself up to i32::MAX, wrapped above it
AsI32(x) == IF x <= 2147483647 THEN x ELSE ((x - 2147483647) - 2147483647) - 2

\* p is a rank of the world and has not stopped
Running(p) == p \in Procs /\ alive[p]

Panicked == {"panic_bounds", "panic_decode", "panic_report"}


\* Every process at the head of main(), nothing sent yet.
InitProcesses ==
    /\ pc = [p \in Procs |-> "start"]
    /\ alive = [p \in Procs |-> TRUE]
    /\ step = [p \in Procs |-> 0]
    /\ all_bodies =
           [p \in Procs |->
               [j \in 1 .. filled_n(args.n_bodies, n_nodes) |-> DefaultBody]]
    /\ local_bodies = [p \in Procs |-> <<>>]
    /\ root = [p \in Procs |-> [center2 |-> <<0, 0>>, size |-> 0, bodies |-> EmptyBag]]
    /\ shards = [p \in Procs |-> <<>>]
    /\ thread_trees = [p \in Procs |-> <<>>]
    /\ serialized_lengths = [p \in Procs |-> <<>>]
    /\ durations = [p \in Procs |-> [subtree |-> 0, merge |-> 0, calc |-> 0, gather |-> 0]]
    /\ calls = [p \in Procs |-> <<>>]
    /\ bcast_box = [sent |-> FALSE, bodies |-> <<>>]
    /\ len_box = [p \in Procs |-> [step |-> -1, len |-> 0]]
    /\ tree_box = [p \in Procs |-> [step |-> -1, bytes |-> <<>>]]
    /\ body_box = [p \in Procs |-> [step |-> -1, bodies |-> <<>>]]

Init ==
    /\ n_nodes \in 1 .. MaxProcs
    /\ args \in [n_bodies : 1 .. MaxBodies,
                 n_steps : 0 .. MaxSteps,
                 threads_per_node : 1 .. MaxThreads,
                 seed : 0 .. MaxSeed,
                 mass_max : {8},
                 pos_max : {4},
                 velocity_max : {4},
                 step_time : {1},
                 theta : {0}]
    /\ InitProcesses

\* main() up to the step loop: the root creates the input and broadcasts
\* it, the others wait for it; every process then takes its slice.
Startup(p) ==
    /\ Running(p) /\ pc[p] = "start"
    /\ IF p = ROOT_RANK
       THEN bcast_box' = [sent |-> TRUE, bodies |-> GenerateBodies(args, n_nodes)]
       ELSE bcast_box.sent /\ UNCHANGED bcast_box
    /\ all_bodies' = [all_bodies EXCEPT ![p] = bcast_box'.bodies]
    /\ local_bodies' =
           [local_bodies EXCEPT
               ![p] = LocalSlice(bcast_box'.bodies, p,
                                 bodies_per_proc(args.n_bodies, n_nodes))]
    /\ calls' = [calls EXCEPT ![p] = Append(@, "broadcast")]
    /\ pc' = [pc EXCEPT ![p] = IF LoopContinues(0, args.n_steps) THEN "build" ELSE "report"]
    /\ UNCHANGED <<n_nodes, args, alive, step, root, shards, thread_trees,
                   serialized_lengths, durations, len_box, tree_box, body_box>>

\* The head of a step: the domain from all_bodies, then barnes_hut's build
\* phase (sharded build and fold) and, with more than one process, the
\* encoding of the local tree and the call of the length all-gather.
Build(p) ==
    /\ Running(p) /\ pc[p] = "build"
    /\ LET b == get_bounds(Positions(all_bodies[p]))
       IN  IF ~b.ok
           THEN /\ pc' = [pc EXCEPT ![p] = "panic_bounds"]
                /\ UNCHANGED <<root, shards, thread_trees, durations, len_box, calls>>
           ELSE LET scaffold == NewTree(b.bounds)
                    chunks == par_chunks(local_bodies[p],
                                         bodies_per_thread(Len(local_bodies[p]),
                                                           n_threads))
                IN  \E order \in Orders(Len(chunks)) :
                    LET trees == BuildThreadTrees(scaffold, chunks, order)
                        local == MergeAll(scaffold, trees)
                    IN
                    /\ shards' = [shards EXCEPT ![p] = chunks]
                    /\ thread_trees' = [thread_trees EXCEPT ![p] = trees]
                    /\ root' = [root EXCEPT ![p] = local]
                    /\ IF n_nodes > 1
                       THEN /\ len_box' = [len_box EXCEPT
                                   ![p] = [step |-> step[p],
                                           len |-> AsI32(Len(Encode(local)))]]
                            /\ durations' = [durations EXCEPT ![p].subtree = @ + 1]
                            /\ calls' = [calls EXCEPT ![p] = Append(@, "all_gather_lengths")]
                            /\ pc' = [pc EXCEPT ![p] = "lengths"]
                       ELSE /\ durations' = [durations EXCEPT ![p].subtree = @ + 1,
                                                              ![p].merge = PushMerge(@, n_nodes)]
                            /\ pc' = [pc EXCEPT ![p] = "force"]
                            /\ UNCHANGED <<len_box, calls>>
    /\ UNCHANGED <<n_nodes, args, alive, step, all_bodies, local_bodies,
                   serialized_lengths, bcast_box, tree_box, body_box>>

\* The length all-gather returns; the process computes the offsets and calls
\* the variable-length all-gather with its encoded tree.
LengthsGathered(p) ==
    /\ Running(p) /\ pc[p] = "lengths"
    /\ AllArrived(len_box, step[p])
    /\ serialized_lengths' =
           [serialized_lengths EXCEPT ![p] = GatherLengths(len_box, n_nodes)]
    /\ tree_box' = [tree_box EXCEPT ![p] = [step |-> step[p], bytes |-> Encode(root[p])]]
    /\ calls' = [calls EXCEPT ![p] = Append(@, "all_gather_trees")]
    /\ pc' = [pc EXCEPT ![p] = "trees"]
    /\ UNCHANGED <<n_nodes, args, alive, step, all_bodies, local_bodies, root, shards,
                   thread_trees, durations, bcast_box, len_box, body_box>>

\* The tree all-gather returns; every tree is decoded (a failed decode
\* panics) and every tree but the caller's own is merged into the root.
TreesGathered(p, damaged) ==
    /\ Running(p) /\ pc[p] = "trees"
    /\ damaged <= n_nodes
    /\ AllArrived(tree_box, step[p])
    /\ LET lengths == serialized_lengths[p]
           total == SumSeq(lengths)
           offsets == Offsets(lengths)
           all_trees_buf == GatherTrees(tree_box, lengths, offsets, total, damaged)
           decoded == DecodeAll(all_trees_buf, offsets, total, n_nodes)
       IN  IF \E i \in DOMAIN decoded : ~decoded[i].ok
           THEN /\ pc' = [pc EXCEPT ![p] = "panic_decode"]
                /\ UNCHANGED <<root, durations>>
           ELSE /\ root' = [root EXCEPT
                       ![p] = MergePeers(@, [i \in DOMAIN decoded |-> decoded[i].tree] \o <<>>,
                                         p)]
                /\ durations' = [durations EXCEPT ![p].merge = PushMerge(@, n_nodes)]
                /\ pc' = [pc EXCEPT ![p] = "force"]
    /\ UNCHANGED <<n_nodes, args, alive, step, all_bodies, local_bodies, shards,
                   thread_trees, serialized_lengths, calls, bcast_box, len_box,
                   tree_box, body_box>>

\* Force evaluation and integration of every local body, then the call of
\* the body all-gather.
Force(p) ==
    /\ Running(p) /\ pc[p] = "force"
    /\ \E order \in Orders(Len(local_bodies[p])) :
           local_bodies' =
               [local_bodies EXCEPT
                   ![p] = ForceTasks(@, root[p], args.theta, args.step_time, order)]
    /\ durations' = [durations EXCEPT ![p].calc = @ + 1]
    /\ body_box' = [body_box EXCEPT ![p] = [step |-> step[p], bodies |-> local_bodies'[p]]]
    /\ calls' = [calls EXCEPT ![p] = Append(@, "all_gather_bodies")]
    /\ pc' = [pc EXCEPT ![p] = "gather"]
    /\ UNCHANGED <<n_nodes, args, alive, step, all_bodies, root, shards, thread_trees,
                   serialized_lengths, bcast_box, len_box, tree_box>>

\* The body all-gather returns: all_bodies is replaced and the step ends.
Gathered(p) ==
    /\ Running(p) /\ pc[p] = "gather"
    /\ AllArrived(body_box, step[p])
    /\ all_bodies' = [all_bodies EXCEPT ![p] = GatherBodies(body_box, n_nodes)]
    /\ durations' = [durations EXCEPT ![p].gather = @ + 1]
    /\ step' = [step EXCEPT ![p] = @ + 1]
    /\ pc' = [pc EXCEPT
           ![p] = IF LoopContinues(step[p] + 1, args.n_steps) THEN "build" ELSE "report"]
    /\ UNCHANGED <<n_nodes, args, alive, local_bodies, root, shards, thread_trees,
                   serialized_lengths, calls, bcast_box, len_box, tree_box, body_box>>

\* After the loop: avg_duration asserts that each log is not empty.
Report(p) ==
    /\ Running(p) /\ pc[p] = "report"
    /\ pc' = [pc EXCEPT
           ![p] = IF \/ durations[p].subtree = 0 \/ durations[p].merge = 0
                     \/ durations[p].calc = 0 \/ durations[p].gather = 0
                  THEN "panic_report"
                  ELSE "done"]
    /\ UNCHANGED <<n_nodes, args, alive, step, all_bodies, local_bodies, root, shards,
                   thread_trees, serialized_lengths, durations, calls, bcast_box,
                   len_box, tree_box, body_box>>

\* A process stalls or is killed: it takes no further step.
Stop(p) ==
    /\ Running(p) /\ pc[p] \notin Panicked \cup {"done"}
    /\ alive' = [alive EXCEPT ![p] = FALSE]
    /\ UNCHANGED <<n_nodes, args, pc, step, all_bodies, local_bodies, root, shards,
                   thread_trees, serialized_lengths, durations, calls, bcast_box,
                   len_box, tree_box, body_box>>

Next ==
    \E p \in 0 .. (MaxProcs - 1) :
        \/ Startup(p)
        \/ Build(p)
        \/ LengthsGathered(p)
        \/ \E damaged \in 0 .. MaxProcs : TreesGathered(p, damaged)
        \/ Force(p)
        \/ Gathered(p)
        \/ Report(p)
        \/ Stop(p)

Spec == Init /\ [][Next]_vars

\* The steps of process p when nothing fails: no process stops and the
\* transport delivers every tree as it was sent.
LiveStep(p) ==
    \/ Startup(p)
    \/ Build(p)
    \/ LengthsGathered(p)
    \/ TreesGathered(p, 0)
    \/ Force(p)
    \/ Gathered(p)
    \/ Report(p)

NextLive == \E p \in 0 .. (MaxProcs - 1) : LiveStep(p)

PcValues == {"start", "build", "lengths", "trees", "force", "gather", "report", "done"}
               \cup Panicked

\* Process p can take a step: it is not blocked in a collective, stopped or
\* at its end.  (The guards of the actions of LiveStep(p), without their
\* effects: CanStepIsEnabled states that this is ENABLED LiveStep(p).)
CanStep(p) ==
    /\ Running(p)
    /\ \/ pc[p] = "start" /\ (p = ROOT_RANK \/ bcast_box.sent)
       \/ pc[p] \in {"build", "force", "report"}
       \/ pc[p] = "lengths" /\ AllArrived(len_box, step[p])
       \/ pc[p] = "trees" /\ AllArrived(tree_box, step[p])
       \/ pc[p] = "gather" /\ AllArrived(body_box, step[p])

CanStepIsEnabled == \A p \in Procs : CanStep(p) <=> ENABLED LiveStep(p)

\* A step of process p, seen on pc alone: every step of p changes pc[p] and
\* no step of another process does.
Moves(p) ==
    /\ CanStep(p)
    /\ pc' \in {[pc EXCEPT ![p] = t] : t \in PcValues \ {pc[p]}}

\* Every process that can take a step eventually takes one.
LiveSpec ==
    /\ Init
    /\ [][NextLive]_vars
    /\ \A p \in 0 .. (MaxProcs - 1) : WF_pc(Moves(p))

\* The values the command line accepts for -l: clap parses any f64, zero and
\* negative ones included (main.rs has no validation after Args::parse()).
TimeSteps == {-1, 0, 1, 2}

\* The values the command line accepts for -T.  For theta <= 0 no node is
\* ever far enough to be taken as a point mass: the force is the direct sum.
Thetas == {-1, 0}

\* A run on any configuration the command line accepts, a body count of 0
\* included, in a world where nothing fails.
InitConfig ==
    /\ n_nodes \in 1 .. MaxProcs
    /\ args \in [n_bodies : 0 .. MaxBodies,
                 n_steps : 0 .. MaxSteps,
                 threads_per_node : {1},
                 seed : 0 .. MaxSeed,
                 mass_max : {8},
                 pos_max : {4},
                 velocity_max : {4},
                 step_time : TimeSteps,
                 theta : Thetas]
    /\ InitProcesses

ConfigSpec == InitConfig /\ [][NextLive]_vars

----------------------------------------------------------------------------
(* Properties.                                                             *)

\* The leaves of the bodies of a sequence that have a mass.
MassLeaves(bodies) == {Leaf(bodies[j]) : j \in {i \in DOMAIN bodies : bodies[i].mass # 0}}

\* The bag holds exactly the leaves of S, each once.
HoldsEachOnce(bag, S) ==
    /\ BagToSet(bag) = S
    /\ \A l \in S : CopiesIn(l, bag) = 1

Finished(p) == pc[p] \in {"report", "done", "panic_report"}

Stopped(q) == ~alive[q] \/ pc[q] \in Panicked

\* C1: when a process has finished the merge phase of a step, its tree holds
\* every body of the global population that has a mass exactly once, for
\* every process count; with one process nothing was exchanged.
C1_MergedTreeHoldsGlobalPopulation ==
    \A p \in Procs :
        pc[p] = "force" =>
            /\ HoldsEachOnce(root[p].bodies, MassLeaves(all_bodies[p]))
            /\ n_nodes = 1 => len_box[p].step = -1 /\ tree_box[p].step = -1

C1_Witness ==
    \E p \in Procs :
        /\ pc[p] = "force" /\ n_nodes > 1 /\ step[p] >= 1
        /\ BagCardinality(root[p].bodies) >= 3
        /\ BagCardinality(root[p].bodies) > Len(tree_box[p].bytes) - 1
        /\ \E j \in DOMAIN all_bodies[p] : all_bodies[p][j].mass = 0

\* C2: processes that stand in the same step hold the same all_bodies, and
\* the trees they have set up for that step have the same domain.
C2_AllBodiesIdentical ==
    \A p, q \in Procs :
        (pc[p] # "start" /\ pc[q] # "start" /\ step[p] = step[q]) =>
            /\ all_bodies[p] = all_bodies[q]
            /\ (pc[p] \in {"lengths", "trees", "force", "gather"}
                    /\ pc[q] \in {"lengths", "trees", "force", "gather"}) =>
                   /\ root[p].center2 = root[q].center2
                   /\ root[p].size = root[q].size

C2_Witness ==
    \E p, q \in Procs :
        /\ p # q /\ pc[p] = "build" /\ pc[q] = "lengths" /\ step[p] = 1 /\ step[q] = 1
        /\ all_bodies[p] # bcast_box.bodies
        /\ all_bodies[p] = all_bodies[q]
        /\ root[q].size > 0

\* q has finished the build of step k and handed its encoded tree to the
\* tree all-gather.
HasSentTree(q, k) ==
    step[q] > k \/ (step[q] = k /\ pc[q] \in {"trees", "force", "gather", "panic_decode"})

\* q has finished force evaluation and integration of step k.
HasIntegrated(q, k) == step[q] > k \/ (step[q] = k /\ pc[q] = "gather")

\* C3: with more than one process, a process is past the merge of step k
\* only if every process has sent its tree of step k, and a process is in
\* step k + 1 only if every process has integrated step k.
C3_PhasesOrdered ==
    n_nodes > 1 =>
        \A p, q \in Procs :
            /\ pc[p] \in {"force", "gather"} => HasSentTree(q, step[p])
            /\ step[p] >= 1 => HasIntegrated(q, step[p] - 1)

C3_Witness ==
    \E p, q \in Procs :
        /\ pc[p] = "gather" /\ step[p] = 1
        /\ pc[q] = "trees" /\ step[q] = 1

RECURSIVE StepCalls(_)
StepCalls(k) ==
    IF k = 0
    THEN <<>>
    ELSE StepCalls(k - 1)
             \o (IF n_nodes > 1 THEN <<"all_gather_lengths", "all_gather_trees">> ELSE <<>>)
             \o <<"all_gather_bodies">>

\* The collective calls of a whole run.
ExpectedCalls == <<"broadcast">> \o StepCalls(args.n_steps)

RunComplete ==
    \A p \in Procs :
        /\ pc[p] = (IF args.n_steps = 0 THEN "panic_report" ELSE "done")
        /\ step[p] = args.n_steps
        /\ calls[p] = ExpectedCalls

\* C4: when no process stops and the processes are scheduled fairly, every
\* process ends after exactly n_steps steps, having issued one broadcast
\* and then per step the length and tree all-gathers (more than one
\* process) and the body all-gather.  (With n_steps = 0 the process ends in
\* the assertion of avg_duration.)
C4_EveryProcessTerminates == <>RunComplete

C4_Witness ==
    /\ RunComplete /\ n_nodes > 1 /\ args.n_steps >= 2
    /\ \A p \in Procs : pc[p] = "done"

\* C5: while a stopped process q has not called a collective of step k, no
\* other process has returned from that collective, none is in a later
\* step and none has left the loop.
C5_StoppedProcessBlocksAll ==
    \A q \in Procs : \A p \in Procs \ {q} : \A k \in 0 .. (args.n_steps - 1) :
        Stopped(q) =>
            /\ len_box[q].step < k /\ n_nodes > 1 =>
                   ~(step[p] > k \/ (step[p] = k /\ pc[p] \in {"trees", "force", "gather",
                                                               "panic_decode"}))
            /\ tree_box[q].step < k /\ n_nodes > 1 =>
                   ~(step[p] > k \/ (step[p] = k /\ pc[p] \in {"force", "gather",
                                                               "panic_decode"}))
            /\ body_box[q].step < k => step[p] <= k /\ ~Finished(p)

C5_Witness ==
    \E q \in Procs : \E p \in Procs \ {q} :
        /\ ~alive[q] /\ pc[q] = "build" /\ step[q] = 1
        /\ alive[p] /\ pc[p] = "lengths" /\ step[p] = 1
        /\ len_box[p].step = 1 /\ ~CanStep(p)

\* C6: no process has evaluated the forces of a step on a tree that lacks a
\* body, and once the decode has failed in some process no process is in a
\* later step or has left the loop, and the failing process has evaluated
\* no force in that step.
C6_DecodeFailureStopsTheRun ==
    /\ \A p \in Procs :
           pc[p] = "gather" =>
               BagCardinality(root[p].bodies) = Cardinality(MassLeaves(all_bodies[p]))
    /\ \A q \in Procs :
           pc[q] = "panic_decode" =>
               /\ durations[q].calc = step[q]
               /\ \A p \in Procs : step[p] = step[q] /\ ~Finished(p)

C6_Witness ==
    \E q \in Procs : \E p \in Procs \ {q} :
        /\ pc[q] = "panic_decode" /\ step[q] = 1
        /\ pc[p] = "gather" /\ step[p] = 1

\* C7: after the build the local slice is cut into exactly n_threads
\* contiguous shards, in order, that cover it, all of one length but
\* possibly the last, which is not longer.
C7_ShardsAreNThreads ==
    \A p \in Procs :
        pc[p] \in {"lengths", "trees", "force"} =>
            /\ Len(shards[p]) = n_threads
            /\ Concat(shards[p]) = local_bodies[p]
            /\ \A t \in DOMAIN shards[p] :
                   /\ Len(shards[p][t]) <= Len(shards[p][1])
                   /\ t < Len(shards[p]) => Len(shards[p][t]) = Len(shards[p][1])

\* C8: no partial tree of a thread holds a body of mass 0; each holds the
\* bodies of its shard that have a mass, and the local tree after the fold
\* holds exactly the bodies of the local slice that have a mass.
C8_NoPaddingInTrees ==
    \A p \in Procs :
        /\ \A t \in DOMAIN thread_trees[p] :
               \A l \in BagToSet(thread_trees[p][t].bodies) : l.mass # 0
        /\ pc[p] \in {"lengths", "trees"} \/ (pc[p] = "force" /\ n_nodes = 1) =>
               /\ HoldsEachOnce(root[p].bodies, MassLeaves(local_bodies[p]))
               /\ \A t \in DOMAIN thread_trees[p] :
                      HoldsEachOnce(thread_trees[p][t].bodies, MassLeaves(shards[p][t]))

C8_Witness ==
    \E p \in Procs :
        /\ pc[p] \in {"lengths", "force"} /\ step[p] = 1
        /\ Len(shards[p]) = 2
        /\ \E i, j \in DOMAIN local_bodies[p] :
               local_bodies[p][i].mass = 0 /\ local_bodies[p][j].mass # 0

\* C9: on every process a body of mass 0 is, in all_bodies and in
\* local_bodies, the body the broadcast delivered: same id, mass, position
\* and velocity, through every step and all-gather.
C9_PaddingUnchanged ==
    \A p \in Procs :
        pc[p] # "start" =>
            /\ \A j \in DOMAIN all_bodies[p] :
                   all_bodies[p][j].mass = 0 \/ bcast_box.bodies[j].mass = 0 =>
                       all_bodies[p][j] = bcast_box.bodies[j]
            /\ \A i \in DOMAIN local_bodies[p] :
                   local_bodies[p][i].mass = 0 =>
                       local_bodies[p][i] \in {bcast_box.bodies[j] : j \in DOMAIN bcast_box.bodies}

C9_Witness ==
    \E p \in Procs :
        /\ pc[p] = "report" /\ step[p] >= 2
        /\ \E j \in DOMAIN all_bodies[p] :
               /\ j <= args.n_bodies
               /\ all_bodies[p][j].mass = 0
               /\ all_bodies[p][j].velocity # <<0, 0>>
        /\ \E j \in DOMAIN all_bodies[p] : j > args.n_bodies
        /\ \E j \in DOMAIN all_bodies[p] :
               all_bodies[p][j].position # bcast_box.bodies[j].position

\* C10: the body array has a multiple of n_nodes entries, at least n_bodies
\* and fewer than n_bodies + n_nodes; the entries after the first n_bodies
\* have mass 0; every process holds the same number of bodies, and the
\* slices are disjoint, in rank order, and cover the array.
C10_PaddedEvenSlices ==
    \A p \in Procs :
        LET total == Len(all_bodies[p])
            per == Len(local_bodies[p])
        IN  /\ total % n_nodes = 0
            /\ total >= args.n_bodies
            /\ total - args.n_bodies < n_nodes
            /\ pc[p] # "start" =>
                   /\ per * n_nodes = total
                   /\ \A j \in DOMAIN all_bodies[p] :
                          /\ all_bodies[p][j].id = j - 1
                          /\ j > args.n_bodies => all_bodies[p][j].mass = 0
                   /\ \A i \in DOMAIN local_bodies[p] :
                          local_bodies[p][i].id = p * per + i - 1
                   /\ \A j \in DOMAIN all_bodies[p] :
                          Cardinality({r \in Procs : r * per < j /\ j <= (r + 1) * per}) = 1

C10_Witness ==
    \E p \in Procs :
        /\ pc[p] = "build" /\ p > 0 /\ step[p] = 1
        /\ Len(all_bodies[p]) > args.n_bodies
        /\ args.n_bodies > n_nodes

\* The leaf lies in the square of the tree: on both axes its coordinate is
\* within center - size/2 .. center + size/2 (compared at twice the scale).
InDomain(l, tree) ==
    \A a \in 1 .. 2 :
        /\ 2 * l.position[a] - tree.center2[a] <= tree.size
        /\ tree.center2[a] - 2 * l.position[a] <= tree.size

\* C11: until the force phase has run, the local bodies of a process are its
\* slice of all_bodies, and every body held by a thread tree or by the
\* (local, then merged) tree of the step lies inside the step's domain.
C11_InsertedBodiesInDomain ==
    \A p \in Procs :
        /\ pc[p] \in {"build", "lengths", "trees", "force"} =>
               local_bodies[p] = LocalSlice(all_bodies[p], p,
                                            bodies_per_proc(args.n_bodies, n_nodes))
        /\ pc[p] \in {"lengths", "trees", "force", "gather"} =>
               /\ \A l \in BagToSet(root[p].bodies) : InDomain(l, root[p])
               /\ \A t \in DOMAIN thread_trees[p] :
                      \A l \in BagToSet(thread_trees[p][t].bodies) :
                          InDomain(l, thread_trees[p][t])

C11_Witness ==
    \E p \in Procs :
        /\ pc[p] = "force" /\ n_nodes > 1 /\ step[p] = 1
        /\ root[p].size > 0
        /\ \E l \in BagToSet(root[p].bodies) :
               /\ 2 * l.position[1] - root[p].center2[1] = root[p].size
               /\ l.id \notin {local_bodies[p][i].id : i \in DOMAIN local_bodies[p]}
        /\ \E l \in BagToSet(root[p].bodies) :
               /\ 2 * l.position[2] - root[p].center2[2] < root[p].size
               /\ root[p].center2[2] - 2 * l.position[2] < root[p].size

\* The body a process held in slot i of its slice when the step began: in
\* the body all-gather all_bodies is not yet replaced.
BodyBefore(p, i) == all_bodies[p][p * bodies_per_proc(args.n_bodies, n_nodes) + i]

\* C12: a process that has integrated a step holds, for every local body
\* with a mass, v' = v + (F / m) * dt and x' = x + v' * dt on both axes,
\* where F is the force of the merged tree on the body as it was before the
\* update; id and mass are kept.
C12_SymplecticEuler ==
    \A p \in Procs :
        pc[p] = "gather" =>
            \A i \in DOMAIN local_bodies[p] :
                LET old == BodyBefore(p, i)
                    new == local_bodies[p][i]
                    F == calculate_force(root[p], old, args.theta)
                    dt == args.step_time
                IN  old.mass # 0 =>
                        /\ new.id = old.id /\ new.mass = old.mass
                        /\ \A a \in 1 .. 2 :
                               /\ new.velocity[a] = old.velocity[a] + (F[a] \div old.mass) * dt
                               /\ new.position[a] =
                                      old.position[a]
                                          + (old.velocity[a] + (F[a] \div old.mass) * dt) * dt

C12_Witness ==
    \E p \in Procs :
        /\ pc[p] = "gather" /\ args.step_time = 2 /\ n_nodes > 1
        /\ \E i \in DOMAIN local_bodies[p] :
               LET old == BodyBefore(p, i)
                   F == calculate_force(root[p], old, args.theta)
               IN  /\ old.mass > 1
                   /\ old.velocity[1] # 0
                   /\ F[1] \div old.mass # 0
                   /\ local_bodies[p][i].position[1]
                          # old.position[1] + old.velocity[1] * 2

\* The empty root the trees of the current step were cloned from.
Scaffold(p) == [root[p] EXCEPT !.bodies = EmptyBag]

\* C13: whatever the order in which the chunk tasks and the body tasks
\* complete, every thread tree is the tree of its own chunk alone, the
\* folded tree is the fold of the thread trees in chunk order, every body
\* slot holds the update of its own body computed on the merged tree, and
\* that tree is the same after the force phase as before it.
C13_TaskOrderIndependent ==
    \A p \in Procs :
        /\ \A t \in DOMAIN thread_trees[p] :
               thread_trees[p][t] = ThreadTree(Scaffold(p), shards[p][t])
        /\ pc[p] \in {"lengths", "trees"} =>
               root[p] = MergeAll(Scaffold(p), thread_trees[p])
        /\ pc[p] = "gather" =>
               /\ Len(local_bodies[p]) = bodies_per_proc(args.n_bodies, n_nodes)
               /\ \A i \in DOMAIN local_bodies[p] :
                      local_bodies[p][i] =
                          Integrate(BodyBefore(p, i), root[p], args.theta, args.step_time)
               /\ HoldsEachOnce(root[p].bodies, MassLeaves(all_bodies[p]))

C13_Witness ==
    \E p \in Procs :
        /\ pc[p] = "gather" /\ step[p] = 1
        /\ Len(thread_trees[p]) = 2
        /\ \A t \in DOMAIN thread_trees[p] : thread_trees[p][t].bodies # EmptyBag
        /\ Cardinality({i \in DOMAIN local_bodies[p] :
                           local_bodies[p][i] # BodyBefore(p, i)}) >= 2

\* All positions of the array coincide.
Degenerate(bodies) ==
    /\ bodies # <<>>
    /\ \A i, j \in DOMAIN bodies : bodies[i].position = bodies[j].position

\* C14: when all bodies of the array coincide, the domain of the step has a
\* size greater than the raw extent 0, and the step does not fail.
C14_DegenerateDomainHasFallbackSize ==
    \A p \in Procs :
        Degenerate(all_bodies[p]) =>
            /\ pc[p] # "panic_bounds"
            /\ pc[p] \in {"lengths", "trees", "force", "gather"} => root[p].size > 0

\* The configuration has a timestep that is not positive or a negative theta.
InvalidConfig == args.step_time <= 0 \/ args.theta < 0

\* C15: with an invalid configuration no process ever begins a step: none
\* builds a tree, enters a collective of a step or integrates a body.
C15_InvalidConfigRunsNoStep ==
    \A p \in Procs :
        InvalidConfig =>
            /\ pc[p] \notin {"lengths", "trees", "force", "gather"}
            /\ step[p] = 0
            /\ durations[p].subtree = 0 /\ durations[p].calc = 0

\* lo and hi are the least and the greatest of the values on axis a.
IsExtent(lo, hi, positions, a) ==
    /\ \A i \in DOMAIN positions : lo <= positions[i][a] /\ positions[i][a] <= hi
    /\ \E i \in DOMAIN positions : positions[i][a] = lo
    /\ \E i \in DOMAIN positions : positions[i][a] = hi

EndOffset(offsets, total, i) == IF i = Len(offsets) THEN total ELSE offsets[i + 1]

\* C17: no rank has sent its tree of a step before every rank has called
\* the length all-gather of that step.  For a process in the tree
\* all-gather whose peers have all sent: the length table holds what each
\* rank sent, offsets[i] is the sum of the lengths of the ranks below, the
\* decoded ranges follow one another from 0 to the total with no gap and no
\* overlap, range i holds the bytes of rank i, and the tree decoded from it
\* is the tree rank i encoded.
C17_RangesPartitionTheBuffer ==
    /\ \A q, r \in Procs : tree_box[q].step >= 0 => len_box[r].step >= tree_box[q].step
    /\ \A p \in Procs :
           pc[p] = "trees" =>
               /\ tree_box[p].bytes = Encode(root[p])
               /\ Decode(tree_box[p].bytes) = [ok |-> TRUE, tree |-> root[p]]
    /\ \A p \in Procs :
           (pc[p] = "trees" /\ AllArrived(tree_box, step[p])) =>
               LET lengths == serialized_lengths[p]
                   total == SumSeq(lengths)
                   offsets == Offsets(lengths)
                   all_trees_buf == GatherTrees(tree_box, lengths, offsets, total, 0)
               IN  /\ total <= 2147483647
                   /\ Len(lengths) = n_nodes /\ Len(offsets) = n_nodes
                   /\ offsets[1] = 0
                   /\ EndOffset(offsets, total, n_nodes) = total
                   /\ Len(all_trees_buf) = total
                   /\ \A i \in 1 .. n_nodes :
                          /\ lengths[i] = Len(tree_box[i - 1].bytes)
                          /\ offsets[i] = SumSeq(SubSeq(lengths, 1, i - 1))
                          /\ EndOffset(offsets, total, i) - offsets[i] = lengths[i]
                          /\ Slice(all_trees_buf, offsets[i], EndOffset(offsets, total, i))
                                 = tree_box[i - 1].bytes
                   /\ DecodeAll(all_trees_buf, offsets, total, n_nodes)
                          = [i \in 1 .. n_nodes |-> Decode(tree_box[i - 1].bytes)]

C17_Witness ==
    \E p \in Procs :
        /\ pc[p] = "trees" /\ AllArrived(tree_box, step[p]) /\ step[p] = 1
        /\ \E i, j \in 1 .. n_nodes :
               /\ serialized_lengths[p][i] > serialized_lengths[p][j]
               /\ serialized_lengths[p][j] > 1

\* C18: once a process has received the broadcast, through every step and
\* every all-gather, slot i of its all_bodies holds the body with id i and
\* the mass the broadcast gave it, the array keeps its length, and its
\* local_bodies are the bodies of its own slice, in order, with their
\* masses; a local body differs from its pre-step self at most in velocity
\* and position.
C18_BodyIdentityStable ==
    \A p \in Procs :
        pc[p] # "start" =>
            LET per == bodies_per_proc(args.n_bodies, n_nodes)
            IN  /\ Len(all_bodies[p]) = Len(bcast_box.bodies)
                /\ \A j \in DOMAIN all_bodies[p] :
                       /\ all_bodies[p][j].id = j - 1
                       /\ all_bodies[p][j].mass = bcast_box.bodies[j].mass
                /\ Len(local_bodies[p]) = per
                /\ \A i \in DOMAIN local_bodies[p] :
                       /\ local_bodies[p][i].id = all_bodies[p][p * per + i].id
                       /\ local_bodies[p][i].mass = all_bodies[p][p * per + i].mass

C18_Witness ==
    \E p \in Procs :
        /\ n_nodes > 1 /\ step[p] = 2 /\ pc[p] = "report"
        /\ \E i, j \in DOMAIN all_bodies[p] :
               /\ all_bodies[p][i].mass # all_bodies[p][j].mass
               /\ all_bodies[p][i].position # bcast_box.bodies[i].position
               /\ all_bodies[p][j].position # bcast_box.bodies[j].position
               /\ i <= Len(local_bodies[p]) /\ j > Len(local_bodies[p])

\* 1 if the process stands at one of the given places of a step, else 0.
LoggedAt(p, places) == IF pc[p] \in places THEN 1 ELSE 0

\* C19: each of the four duration logs of a process holds one entry per
\* finished step, plus one for the current step once its phase is over;
\* after the loop each holds n_steps entries, and the process ends in the
\* assertion of avg_duration exactly if n_steps = 0.
C19_DurationLogsOncePerStep ==
    \A p \in Procs :
        /\ durations[p].subtree
               = step[p] + LoggedAt(p, {"lengths", "trees", "panic_decode", "force", "gather"})
        /\ durations[p].merge = step[p] + LoggedAt(p, {"force", "gather"})
        /\ durations[p].calc = step[p] + LoggedAt(p, {"gather"})
        /\ durations[p].gather = step[p]
        /\ pc[p] \in {"report", "done", "panic_report"} =>
               /\ durations[p] = [subtree |-> args.n_steps, merge |-> args.n_steps,
                                  calc |-> args.n_steps, gather |-> args.n_steps]
               /\ pc[p] = "done" => args.n_steps >= 1
               /\ pc[p] = "panic_report" => args.n_steps = 0

C19_Witness ==
    /\ args.n_steps = 2
    /\ \E p, q \in Procs :
           /\ pc[p] = "done" /\ durations[p].merge = 2
           /\ pc[q] = "gather" /\ durations[q].calc = 2 /\ durations[q].gather = 1

====
